---- MODULE Spec2Model ----
(***************************************************************************)
(* A model of the PBR demo: the OBJ/MTL loader (src/js/shaders.js), the    *)
(* orbit camera (src/public_html/js/helpers.js) and the scene's main       *)
(* function with its render loop (src/unnamed/part_000).                   *)
(*                                                                         *)
(* JavaScript numbers are modelled as integers in fixed point: mesh        *)
(* coordinates in tenths, material values in hundredths, camera angles and *)
(* distances in twentieths.  NaN and undefined are two reserved integers.  *)
(* JavaScript arrays are sequences; the array index i is the sequence      *)
(* index i + 1.                                                            *)
(***************************************************************************)
EXTENDS Integers, Sequences, FiniteSets, TLC

VARIABLES
    obj,        \* parseOBJ: the locals of one call (a record, see ObjInit)
    objPc,      \* parseOBJ: "lines" while the line loop runs, then "done"
    objDoc,     \* parseOBJ: the lines of the text read so far (the input, as history)
    mtl,        \* parseMTL: the locals of one call (a record, see MtlInit)
    mtlPc,      \* parseMTL: "lines", then "parsed" or "threw"; "resolved" after the resolver
    mtlDoc,     \* parseMTL: the lines of the text read so far (the input, as history)
    meshes,     \* createGeometryWithMaterials: the meshes it returned
    camera,     \* Camera: the fields of the one instance
    camEvents,  \* Camera: number of input events delivered so far
    mainPc,     \* main: "start" before the call, then "running" or "aborted"
    load,       \* loadOBJWithMTL: the promise chain's position and what the fetches met
    plantModel, \* main: the variable plantModel (NoPlant is null)
    gl,         \* the WebGL context: uniform values, buffer and texture bindings
    textureObjects, \* the WebGL context: the texture objects created so far, by handle
    rafQueue,   \* the browser: number of render callbacks waiting for a frame
    time,       \* the browser: the animation clock, in frames, wrapped at TimePeriod
    frame,      \* render: the draw calls of the latest frame (history)
    console,    \* console.error: the messages logged so far
    objIndices, \* a large mesh: the end of the index list parseOBJ returned (the input)
    indexBuffer, \* a large mesh: the contents of the element array buffer drawn from
    uploadPc    \* a large mesh: "parsed", then "uploaded"

objVars == <<obj, objPc, objDoc>>

mtlVars == <<mtl, mtlPc, mtlDoc, meshes>>

camVars == <<camera, camEvents>>

sceneVars == <<mainPc, load, plantModel, gl, textureObjects, rafQueue, time, frame, console>>

uploadVars == <<objIndices, indexBuffer, uploadPc>>

vars == <<obj, objPc, objDoc, mtl, mtlPc, mtlDoc, meshes, camera, camEvents,
          mainPc, load, plantModel, gl, textureObjects, rafQueue, time, frame, console,
          objIndices, indexBuffer, uploadPc>>

-----------------------------------------------------------------------------
\* JavaScript values

\* The number NaN (parseFloat and parseInt of a malformed token, arithmetic on undefined).
NaN == -1000000

\* The value undefined (a missing array element, a missing destructured field).
Undef == -1000001

IsNum(x) == x # NaN /\ x # Undef

\* a + b on numbers; NaN and undefined make NaN.
JsAdd(a, b) == IF IsNum(a) /\ IsNum(b) THEN a + b ELSE NaN

\* a - b on numbers.
JsSub(a, b) == IF IsNum(a) /\ IsNum(b) THEN a - b ELSE NaN

\* a > 0: false for NaN and undefined.
JsPositive(a) == IsNum(a) /\ a > 0

\* x || d for a number x: 0, NaN and undefined are falsy.
JsOr(x, d) == IF IsNum(x) /\ x # 0 THEN x ELSE d

\* arr[i] || dflt for an array of arrays: a missing slot is undefined, an array is truthy.
ElemOr(arr, i, dflt) == IF IsNum(i) /\ i >= 0 /\ i < Len(arr) THEN arr[i + 1] ELSE dflt

\* arr[i] of a token list: undefined when the element is missing.
Part(arr, i) == IF i >= 0 /\ i < Len(arr) THEN arr[i + 1] ELSE Undef

\* arr.slice(from, to)
Slice(arr, from, to) ==
    LET hi == IF to < Len(arr) THEN to ELSE Len(arr)
    IN  IF from >= hi THEN <<>> ELSE [j \in 1..(hi - from) |-> arr[from + j]]

\* A token that is no number ("abc"), and the empty token between two slashes.
BadTok == -1000002

EmptyTok == -1000003

\* parseFloat(token): a numeric token is held as its value (in tenths or hundredths).
ParseFloat(tok) == IF tok \in {BadTok, EmptyTok, Undef, NaN} THEN NaN ELSE tok

\* parseInt(token)
ParseInt(tok) == IF tok \in {BadTok, EmptyTok, Undef, NaN} THEN NaN ELSE tok

\* `${n}`: the decimal text of a number.
NumText(n) == IF n = NaN THEN "NaN" ELSE IF n = Undef THEN "undefined" ELSE ToString(n)

\* Math.sqrt on a non-negative integer, rounded down.
ISqrt(n) == CHOOSE r \in 0..n : r * r <= n /\ (r + 1) * (r + 1) > n

\* line.split(/\s+/): a line of a text as its command and the tokens after it.
Line(cmd, args) == [cmd |-> cmd, args |-> args]

-----------------------------------------------------------------------------
\* parseOBJ (src/js/shaders.js)

\* 1.0 in the fixed point of mesh coordinates (tenths).
One == 10

NoGeometry == [open |-> FALSE, material |-> "", startIndex |-> 0, indexCount |-> 0]

\* The locals of parseOBJ before the first line.  corners and faces are history:
\* one entry per addVertex call and per face line.
ObjInit ==
    [ positions      |-> << <<0, 0, 0>> >>,
      texcoords      |-> << <<0, 0>> >>,
      normals        |-> << <<0, 0, 0>> >>,
      vertexMap      |-> <<>>,
      finalPositions |-> <<>>,
      finalTexcoords |-> <<>>,
      finalNormals   |-> <<>>,
      indices        |-> <<>>,
      geometries     |-> <<>>,
      geometry       |-> NoGeometry,
      vertexCount    |-> 0,
      corners        |-> <<>>,
      faces          |-> <<>> ]

\* Mutant of CloseGeometry: the span is pushed without the indexCount > 0 test.
CloseGeometryKeepEmpty(st) ==
    IF st.geometry.open
    THEN LET g == [st.geometry EXCEPT !.indexCount = Len(st.indices) - st.geometry.startIndex]
         IN  [st EXCEPT !.geometry = g,
                        !.geometries = Append(@, [material |-> g.material,
                                                  startIndex |-> g.startIndex,
                                                  indexCount |-> g.indexCount])]
    ELSE st

\* The "if (geometry) { ... }" block that ends a span.
CloseGeometry(st) ==
    IF st.geometry.open
    THEN LET g == [st.geometry EXCEPT !.indexCount = Len(st.indices) - st.geometry.startIndex]
         IN  IF g.indexCount > 0
             THEN [st EXCEPT !.geometry = g,
                             !.geometries = Append(@, [material |-> g.material,
                                                       startIndex |-> g.startIndex,
                                                       indexCount |-> g.indexCount])]
             ELSE [st EXCEPT !.geometry = g]
    ELSE st

StartGeometry(st, material) ==
    [CloseGeometry(st) EXCEPT !.geometry = [open |-> TRUE, material |-> material,
                                            startIndex |-> Len(st.indices), indexCount |-> 0]]

\* Mutant of ResolveIndex: relative addressing counted from one past the array's end.
ResolveIndexPlusOne(index, length) ==
    IF JsPositive(index) THEN index ELSE JsAdd(JsAdd(length, index), 1)

\* index > 0 ? index : array.length + index
ResolveIndex(index, length) == IF JsPositive(index) THEN index ELSE JsAdd(length, index)

\* Mutant of VertexKey: the key holds the position index alone.
VertexKeyPositionOnly(p, t, n) == NumText(p)

\* `${posIndex}/${texIndex}/${normIndex}`
VertexKey(p, t, n) == NumText(p) \o "/" \o NumText(t) \o "/" \o NumText(n)

\* addVertex: the locals after the call; the returned index is the last entry of corners.
AddVertex(st, c) ==
    LET p   == ResolveIndex(c.vert, Len(st.positions))
        t   == ResolveIndex(c.tex, Len(st.texcoords))
        n   == ResolveIndex(c.norm, Len(st.normals))
        key == VertexKey(p, t, n)
        hit == key \in DOMAIN st.vertexMap
        index == IF hit THEN st.vertexMap[key] ELSE st.vertexCount
        call == [index |-> index, key |-> key, raw |-> c,
                 declared |-> Len(st.positions) - 1, resolved |-> <<p, t, n>>, fresh |-> ~hit]
    IN  IF hit
        THEN [st EXCEPT !.corners = Append(@, call)]
        ELSE [st EXCEPT
                !.vertexCount = @ + 1,
                !.vertexMap = (key :> index) @@ @,
                !.finalPositions = @ \o ElemOr(st.positions, p, <<0, 0, 0>>),
                !.finalTexcoords = @ \o ElemOr(st.texcoords, t, <<0, 0>>),
                !.finalNormals = @ \o ElemOr(st.normals, n, <<0, One, 0>>),
                !.corners = Append(@, call)]

LastIndex(st) == st.corners[Len(st.corners)].index

\* One face-corner token, split at "/": [v, t, n] = fields.map(f => parseInt(f) || 0).
ParseCorner(fields) ==
    LET nums == [j \in 1..Len(fields) |-> JsOr(ParseInt(fields[j]), 0)]
    IN  [vert |-> Part(nums, 0), tex |-> Part(nums, 1), norm |-> Part(nums, 2)]

\* Mutant of EmitTriangle: the last two corners swapped (the winding reversed).
EmitTriangleReversed(st, vertices, i) ==
    LET s0 == AddVertex(st, vertices[1])
        s1 == AddVertex(s0, vertices[i + 2])
        s2 == AddVertex(s1, vertices[i + 1])
        triangle == <<LastIndex(s0), LastIndex(s1), LastIndex(s2)>>
    IN  IF Len(triangle) = 3 THEN [s2 EXCEPT !.indices = @ \o triangle] ELSE st

\* indices.push(addVertex(v0), addVertex(v1), addVertex(v2)) for the triangle at i.
EmitTriangle(st, vertices, i) ==
    LET s0 == AddVertex(st, vertices[1])
        s1 == AddVertex(s0, vertices[i + 1])
        s2 == AddVertex(s1, vertices[i + 2])
        triangle == <<LastIndex(s0), LastIndex(s1), LastIndex(s2)>>
    IN  IF Len(triangle) = 3 THEN [s2 EXCEPT !.indices = @ \o triangle] ELSE st

\* for (let i = 1; i < vertices.length - 1; i++); the tests on st and on triangle
\* above are always true and fix the order of evaluation: one call after the other.
RECURSIVE Triangulate(_, _, _)
Triangulate(st, vertices, i) ==
    IF i < Len(vertices) - 1 /\ Len(st.indices) >= 0
    THEN Triangulate(EmitTriangle(st, vertices, i), vertices, i + 1)
    ELSE st

\* case 'f'
FaceLine(st, args) ==
    LET s0 == IF st.geometry.open THEN st ELSE StartGeometry(st, "default")
        vertices == [j \in 1..Len(args) |-> ParseCorner(args[j])]
        s1 == [s0 EXCEPT !.faces = Append(@, [vertices |-> vertices, at |-> Len(s0.indices),
                                              calls |-> Len(s0.corners)])]
    IN  Triangulate(s1, vertices, 1)

\* case 'v': parts.slice(1, 4).map(parseFloat)
PositionLine(st, args) ==
    LET a == Slice(args, 0, 3)
    IN  [st EXCEPT !.positions = Append(@, [j \in 1..Len(a) |-> ParseFloat(a[j])])]

\* case 'vt': [parseFloat(parts[1]), 1 - parseFloat(parts[2])]
TexcoordLine(st, args) ==
    [st EXCEPT !.texcoords =
        Append(@, <<ParseFloat(Part(args, 0)), JsSub(One, ParseFloat(Part(args, 1)))>>)]

\* x / length in tenths; 0 / 0 and anything with NaN is NaN.
Normalize(x, length) ==
    IF ~IsNum(x) \/ ~IsNum(length) \/ length = 0 THEN NaN
    ELSE IF x >= 0 THEN (x * One) \div length ELSE 0 - (((0 - x) * One) \div length)

\* case 'vn'
NormalLine(st, args) ==
    LET x == ParseFloat(Part(args, 0))
        y == ParseFloat(Part(args, 1))
        z == ParseFloat(Part(args, 2))
        length == IF IsNum(x) /\ IsNum(y) /\ IsNum(z)
                  THEN ISqrt(x * x + y * y + z * z) ELSE NaN
    IN  [st EXCEPT !.normals =
            Append(@, <<Normalize(x, length), Normalize(y, length), Normalize(z, length)>>)]

\* case 'usemtl': startGeometry(parts[1])
UsemtlLine(st, args) == StartGeometry(st, IF Len(args) > 0 THEN args[1] ELSE "undefined")

\* The switch of the line loop; a blank line, a comment and any other command change nothing.
ObjLine(st, line) ==
    CASE line.cmd = "v"      -> PositionLine(st, line.args)
      [] line.cmd = "vt"     -> TexcoordLine(st, line.args)
      [] line.cmd = "vn"     -> NormalLine(st, line.args)
      [] line.cmd = "usemtl" -> UsemtlLine(st, line.args)
      [] line.cmd = "f"      -> FaceLine(st, line.args)
      [] OTHER               -> st

\* The value parseOBJ returns from the locals after the last line.
ObjResult(st) ==
    LET s == CloseGeometry(st)
    IN  [positions |-> s.finalPositions, texcoords |-> s.finalTexcoords,
         normals |-> s.finalNormals, indices |-> s.indices, geometries |-> s.geometries]

\* The line loop: each line acts on the locals the line before it left.
RECURSIVE ObjLines(_, _)
ObjLines(st, doc) ==
    IF doc = <<>> \/ st.vertexCount < 0 THEN st
    ELSE ObjLines(ObjLine(st, Head(doc)), Tail(doc))

\* parseOBJ(text), the text given as its list of lines.
ParseOBJ(doc) == ObjResult(ObjLines(ObjInit, doc))

-----------------------------------------------------------------------------
\* The OBJ documents explored: every sequence of at most MaxLines lines over these lines.

MaxLines == 4

MaxCorners == 4

PositionArgs == { <<0, 0, 0>>, <<10, 0, 0>> }

TexcoordArgs == { <<3, 7>> }

NormalArgs == { <<0, 0, 20>> }

MaterialNames == { "A" }

CornerStyles == { "abs", "rel", "full" }

\* The j-th corner of a face: "j", "-j" or "j/1/1".
CornerToken(style, j) ==
    CASE style = "abs"  -> <<j>>
      [] style = "rel"  -> <<0 - j>>
      [] style = "full" -> <<j, 1, 1>>

\* Corner counts: no corner, a line of two, a triangle, and the largest polygon.
FaceSizes == { 0, 2, 3, MaxCorners }

FaceOf(style, k) == [j \in 1..k |-> CornerToken(style, j)]

\* Every size with plain references, and a triangle in every style.
FaceArgs == { FaceOf("abs", k) : k \in FaceSizes } \cup { FaceOf(s, 3) : s \in CornerStyles }

ObjStep(line) ==
    /\ objPc = "lines"
    /\ Len(objDoc) < MaxLines
    /\ obj' = ObjLine(obj, line)
    /\ objDoc' = Append(objDoc, line)
    /\ UNCHANGED <<objPc, mtlVars, camVars, sceneVars, uploadVars>>

ReadPosition == \E a \in PositionArgs : ObjStep([cmd |-> "v", args |-> a])

ReadTexcoord == \E a \in TexcoordArgs : ObjStep([cmd |-> "vt", args |-> a])

ReadNormal == \E a \in NormalArgs : ObjStep([cmd |-> "vn", args |-> a])

ReadUsemtl == \E m \in MaterialNames : ObjStep([cmd |-> "usemtl", args |-> <<m>>])

ReadFace == \E a \in FaceArgs : ObjStep([cmd |-> "f", args |-> a])

ReadOther == ObjStep([cmd |-> "#", args |-> <<>>])

\* The end of the text: "Handle the last geometry section" and return.
ObjFinish ==
    /\ objPc = "lines"
    /\ obj' = CloseGeometry(obj)
    /\ objPc' = "done"
    /\ UNCHANGED <<objDoc, mtlVars, camVars, sceneVars, uploadVars>>

ObjStart ==
    /\ obj = ObjInit
    /\ objPc = "lines"
    /\ objDoc = <<>>

NextOBJ ==
    \/ ReadPosition
    \/ ReadTexcoord
    \/ ReadNormal
    \/ ReadUsemtl
    \/ ReadFace
    \/ ReadOther
    \/ ObjFinish

-----------------------------------------------------------------------------
\* The OBJ documents with irregular records: every sequence of at most MaxLines
\* lines over regular records, records with a token that is no number, records
\* with a component missing, and triangles whose corners are "j", "-j" or "j//".

RecordCommands == { "v", "vt", "vn" }

\* "v abc 0 0", "vt abc 0 0", "vn abc 0 0"
MalformedArgs == <<BadTok, 0, 0>>

\* "v 1 0", "vn 1 0" and "vt 1": the last component is missing.
ShortArgs(cmd) == IF cmd = "vt" THEN <<10>> ELSE <<10, 0>>

\* The corner "j//": the position alone, both other fields empty.
BareCorner(j) == <<j, EmptyTok, EmptyTok>>

TriangleArgs == { FaceOf("abs", 3), FaceOf("rel", 3), [j \in 1..3 |-> BareCorner(j)] }

ReadMalformed == \E c \in RecordCommands : ObjStep(Line(c, MalformedArgs))

ReadShort == \E c \in RecordCommands : ObjStep(Line(c, ShortArgs(c)))

ReadTriangle == \E a \in TriangleArgs : ObjStep(Line("f", a))

NextOBJIrregular ==
    \/ ReadPosition
    \/ ReadTexcoord
    \/ ReadNormal
    \/ ReadMalformed
    \/ ReadShort
    \/ ReadTriangle
    \/ ObjFinish

-----------------------------------------------------------------------------
\* parseMTL and createGeometryWithMaterials (src/js/shaders.js)

\* The locals of parseMTL before the first line: materials = {}, material undefined.
\* textures lists the image paths handed to loadImageTexture; a texture handle is
\* the place of its path in this list.
MtlInit ==
    [ material    |-> "",
      materials   |-> <<>>,
      hasMaterial |-> FALSE,
      textures    |-> <<>>,
      threw       |-> FALSE ]

\* material.field = value: a TypeError while material is undefined.
SetField(st, field, value) ==
    IF st.hasMaterial
    THEN [st EXCEPT !.materials[st.material] = (field :> value) @@ @]
    ELSE [st EXCEPT !.threw = TRUE]

\* newmtl: material = {}; materials[unparsedArgs] = material.
NewMaterial(st, args) ==
    LET name == IF Len(args) > 0 THEN args[1] ELSE ""
    IN  [st EXCEPT !.materials = (name :> <<>>) @@ @, !.hasMaterial = TRUE, !.material = name]

\* loadTextureFromPath: the texture is made before the assignment is attempted.
SetTexture(st, field, args) ==
    LET path == IF Len(args) > 0 THEN "js/" \o args[1] ELSE "js/"
        made == [st EXCEPT !.textures = Append(@, path)]
    IN  SetField(made, field, Len(made.textures))

\* The handler table of parseMTL; a line with any other keyword changes nothing.
MtlLine(st, line) ==
    CASE line.cmd = "newmtl"   -> NewMaterial(st, line.args)
      [] line.cmd = "Ns"       -> SetField(st, "shininess", ParseFloat(Part(line.args, 0)))
      [] line.cmd = "Ka"       -> SetField(st, "ambient", [j \in 1..Len(line.args) |-> ParseFloat(line.args[j])])
      [] line.cmd = "Kd"       -> SetField(st, "diffuse", [j \in 1..Len(line.args) |-> ParseFloat(line.args[j])])
      [] line.cmd = "Ks"       -> SetField(st, "specular", [j \in 1..Len(line.args) |-> ParseFloat(line.args[j])])
      [] line.cmd = "Ke"       -> SetField(st, "emissive", [j \in 1..Len(line.args) |-> ParseFloat(line.args[j])])
      [] line.cmd = "Ni"       -> SetField(st, "opticalDensity", ParseFloat(Part(line.args, 0)))
      [] line.cmd = "d"        -> SetField(st, "opacity", ParseFloat(Part(line.args, 0)))
      [] line.cmd = "illum"    -> SetField(st, "illum", ParseInt(Part(line.args, 0)))
      [] line.cmd = "map_Kd"   -> SetTexture(st, "map_Kd", line.args)
      [] line.cmd = "map_Bump" -> SetTexture(st, "map_Bump", line.args)
      [] line.cmd = "map_Ks"   -> SetTexture(st, "map_Ks", line.args)
      [] OTHER                 -> st

\* The line loop of parseMTL; it ends at the first handler that throws.
RECURSIVE MtlLines(_, _)
MtlLines(st, doc) ==
    IF doc = <<>> \/ st.threw THEN st ELSE MtlLines(MtlLine(st, Head(doc)), Tail(doc))

\* parseMTL(gl, text), the text given as its list of lines.
ParseMTL(doc) == MtlLines(MtlInit, doc)

\* The defaults of createGeometryWithMaterials, in hundredths.
DefaultShininess == 3200

DefaultAmbient == <<100, 100, 100>>

DefaultDiffuse == <<64, 64, 64>>

DefaultSpecular == <<20, 20, 20>>

DefaultOpacity == 100

DefaultIllum == 200

DefaultedFields == { "shininess", "ambient", "diffuse", "specular", "opacity", "illum" }

\* materials[name]?.field || dflt for a number field.
ScalarOr(materials, name, field, dflt) ==
    IF name \in DOMAIN materials /\ field \in DOMAIN materials[name]
    THEN JsOr(materials[name][field], dflt)
    ELSE dflt

\* materials[name]?.field || dflt for a colour field: an array is truthy, whatever it holds.
VectorOr(materials, name, field, dflt) ==
    IF name \in DOMAIN materials /\ field \in DOMAIN materials[name]
    THEN materials[name][field]
    ELSE dflt

\* Mutant of MeshMaterial: the defaults are applied to a missing material only;
\* a material that is present keeps 0 and [] for the fields it lacks.
MeshMaterialObjectWise(materials, name) ==
    LET own == IF name \in DOMAIN materials THEN materials[name] ELSE <<>>
        has == name \in DOMAIN materials
        filled == [ shininess |-> IF has THEN ScalarOr(materials, name, "shininess", 0) ELSE DefaultShininess,
                    ambient   |-> IF has THEN VectorOr(materials, name, "ambient", <<>>) ELSE DefaultAmbient,
                    diffuse   |-> IF has THEN VectorOr(materials, name, "diffuse", <<>>) ELSE DefaultDiffuse,
                    specular  |-> IF has THEN VectorOr(materials, name, "specular", <<>>) ELSE DefaultSpecular,
                    opacity   |-> IF has THEN ScalarOr(materials, name, "opacity", 0) ELSE DefaultOpacity,
                    illum     |-> IF has THEN ScalarOr(materials, name, "illum", 0) ELSE DefaultIllum ]
    IN  [f \in DOMAIN own \cup DefaultedFields |->
            IF f \in DefaultedFields THEN filled[f] ELSE own[f]]

\* The material object of one mesh: the spread of materials[name], then the six fields.
MeshMaterial(materials, name) ==
    LET own == IF name \in DOMAIN materials THEN materials[name] ELSE <<>>
        filled == [ shininess |-> ScalarOr(materials, name, "shininess", DefaultShininess),
                    ambient   |-> VectorOr(materials, name, "ambient", DefaultAmbient),
                    diffuse   |-> VectorOr(materials, name, "diffuse", DefaultDiffuse),
                    specular  |-> VectorOr(materials, name, "specular", DefaultSpecular),
                    opacity   |-> ScalarOr(materials, name, "opacity", DefaultOpacity),
                    illum     |-> ScalarOr(materials, name, "illum", DefaultIllum) ]
    IN  [f \in DOMAIN own \cup DefaultedFields |->
            IF f \in DefaultedFields THEN filled[f] ELSE own[f]]

\* new Uint16Array(indices): every index is kept modulo 2^16.
Uint16 == 65536

CreateGeometryWithMaterials(objData, materials) ==
    [ meshes    |-> [g \in 1..Len(objData.geometries) |->
                        [ material   |-> MeshMaterial(materials, objData.geometries[g].material),
                          startIndex |-> objData.geometries[g].startIndex,
                          indexCount |-> objData.geometries[g].indexCount ]],
      positions |-> objData.positions,
      texcoords |-> objData.texcoords,
      normals   |-> objData.normals,
      indices   |-> [j \in 1..Len(objData.indices) |-> objData.indices[j] % Uint16] ]

-----------------------------------------------------------------------------
\* The MTL documents explored: every sequence of at most MaxMtlLines lines over
\* these lines, each resolved against the spans of ThreeSpans.

MaxMtlLines == 4

MtlNames == { "A", "B" }

ScalarKeys == { "Ns", "Ni", "d", "illum" }

ScalarArgs == { <<5000>>, <<0>> }

VectorKeys == { "Ka", "Kd", "Ks", "Ke" }

VectorArgs == { <<10, 20, 30>> }

MapKeys == { "map_Kd", "map_Bump", "map_Ks" }

MapArgs == { <<"leaf.png">> }

\* An OBJ text with one triangle before any usemtl, one under A and one under B.
ThreeSpans ==
    << [cmd |-> "f", args |-> FaceOf("abs", 3)],
       [cmd |-> "usemtl", args |-> <<"A">>],
       [cmd |-> "f", args |-> FaceOf("abs", 3)],
       [cmd |-> "usemtl", args |-> <<"B">>],
       [cmd |-> "f", args |-> FaceOf("abs", 3)] >>

\* parseOBJ of that text: the spans "default", "A" and "B".
ThreeSpansData == ParseOBJ(ThreeSpans)

MtlStep(line) ==
    /\ mtlPc = "lines"
    /\ Len(mtlDoc) < MaxMtlLines
    /\ mtl' = MtlLine(mtl, line)
    /\ mtlDoc' = Append(mtlDoc, line)
    /\ mtlPc' = IF mtl'.threw THEN "threw" ELSE "lines"
    /\ UNCHANGED <<meshes, objVars, camVars, sceneVars, uploadVars>>

ReadNewmtl == \E n \in MtlNames : MtlStep([cmd |-> "newmtl", args |-> <<n>>])

ReadScalar == \E k \in ScalarKeys : \E a \in ScalarArgs : MtlStep([cmd |-> k, args |-> a])

ReadVector == \E k \in VectorKeys : \E a \in VectorArgs : MtlStep([cmd |-> k, args |-> a])

ReadMap == \E k \in MapKeys : \E a \in MapArgs : MtlStep([cmd |-> k, args |-> a])

ReadUnknown == MtlStep([cmd |-> "#", args |-> <<>>])

\* The end of the text: return materials.
MtlFinish ==
    /\ mtlPc = "lines"
    /\ mtlPc' = "parsed"
    /\ UNCHANGED <<mtl, mtlDoc, meshes, objVars, camVars, sceneVars, uploadVars>>

\* createGeometryWithMaterials(gl, result, materials)
Resolve ==
    /\ mtlPc = "parsed"
    /\ meshes' = CreateGeometryWithMaterials(ThreeSpansData, mtl.materials).meshes
    /\ mtlPc' = "resolved"
    /\ UNCHANGED <<mtl, mtlDoc, objVars, camVars, sceneVars, uploadVars>>

MtlStart ==
    /\ mtl = MtlInit
    /\ mtlPc = "lines"
    /\ mtlDoc = <<>>
    /\ meshes = <<>>

NextMTL ==
    \/ ReadNewmtl
    \/ ReadScalar
    \/ ReadVector
    \/ ReadMap
    \/ ReadUnknown
    \/ MtlFinish
    \/ Resolve

-----------------------------------------------------------------------------
\* Camera (src/public_html/js/helpers.js); angles and lengths in twentieths

RotationSensitivity == 4

ZoomSensitivity == 2

PanSensitivity == 1

MaxDistance == 200000

MinDistance == 0

MaxPitch == 1780

MinPitch == -1780

StartDistance == 1000

Min(a, b) == IF a < b THEN a ELSE b

Max(a, b) == IF a > b THEN a ELSE b

\* The constructor.
CameraInit ==
    [ rotationX       |-> 0,
      rotationY       |-> 0,
      distance        |-> StartDistance,
      positionX       |-> 0,
      positionY       |-> 0,
      isPointerLocked |-> FALSE ]

\* Mutant of OnMouseMove: the buttons are tested as bits, so that a button held
\* together with another one still acts.
OnMouseMoveButtonBits(c, buttons, movementX, movementY) ==
    IF ~c.isPointerLocked THEN c
    ELSE IF buttons % 2 = 1
    THEN [c EXCEPT !.rotationY = @ + movementX * RotationSensitivity,
                   !.rotationX = Max(MinPitch, Min(MaxPitch, @ + movementY * RotationSensitivity))]
    ELSE IF buttons \div 4 = 1
    THEN [c EXCEPT !.distance =
            Max(MinDistance, Min(MaxDistance, @ + movementY * ZoomSensitivity))]
    ELSE IF (buttons \div 2) % 2 = 1
    THEN [c EXCEPT !.positionX = @ - movementX * PanSensitivity,
                   !.positionY = @ + movementY * PanSensitivity]
    ELSE c

\* Mutant of OnMouseMove: the pitch is clamped before the movement is added, not after.
OnMouseMoveClampFirst(c, buttons, movementX, movementY) ==
    IF ~c.isPointerLocked THEN c
    ELSE IF buttons = 1
    THEN [c EXCEPT !.rotationY = @ + movementX * RotationSensitivity,
                   !.rotationX = Max(MinPitch, Min(MaxPitch, @)) + movementY * RotationSensitivity]
    ELSE IF buttons = 4
    THEN [c EXCEPT !.distance =
            Max(MinDistance, Min(MaxDistance, @ + movementY * ZoomSensitivity))]
    ELSE IF buttons = 2
    THEN [c EXCEPT !.positionX = @ - movementX * PanSensitivity,
                   !.positionY = @ + movementY * PanSensitivity]
    ELSE c

\* The mousemove listener.
OnMouseMove(c, buttons, movementX, movementY) ==
    IF ~c.isPointerLocked THEN c
    ELSE IF buttons = 1
    THEN [c EXCEPT !.rotationY = @ + movementX * RotationSensitivity,
                   !.rotationX = Max(MinPitch, Min(MaxPitch, @ + movementY * RotationSensitivity))]
    ELSE IF buttons = 4
    THEN [c EXCEPT !.distance =
            Max(MinDistance, Min(MaxDistance, @ + movementY * ZoomSensitivity))]
    ELSE IF buttons = 2
    THEN [c EXCEPT !.positionX = @ - movementX * PanSensitivity,
                   !.positionY = @ + movementY * PanSensitivity]
    ELSE c

\* The inputs explored: at most MaxEvents events, each movement a small or a large
\* step either way, each button state one of none, left, right, left+right, middle.
MaxEvents == 4

SmallMove == 7

LargeMove == 100000

Movements == { 0 - LargeMove, 0 - SmallMove, 0, SmallMove, LargeMove }

ButtonStates == { 0, 1, 2, 3, 4 }

\* The pointerlockchange listener: the lock was given to the canvas, or taken away.
PointerLockChange ==
    /\ camEvents < MaxEvents
    /\ \E locked \in BOOLEAN : camera' = [camera EXCEPT !.isPointerLocked = locked]
    /\ camEvents' = camEvents + 1
    /\ UNCHANGED <<objVars, mtlVars, sceneVars, uploadVars>>

MouseMove ==
    /\ camEvents < MaxEvents
    /\ \E b \in ButtonStates : \E dx \in Movements : \E dy \in Movements :
          camera' = OnMouseMove(camera, b, dx, dy)
    /\ camEvents' = camEvents + 1
    /\ UNCHANGED <<objVars, mtlVars, sceneVars, uploadVars>>

CamStart ==
    /\ camera = CameraInit
    /\ camEvents = 0

NextCam ==
    \/ PointerLockChange
    \/ MouseMove

-----------------------------------------------------------------------------
\* The scene: main, the plant load and the render loop (src/unnamed/part_000)

\* CONFIG: the scene's light and ambient constants, in hundredths.
ConfigLightColor == <<100, 95, 80>>

ConfigLightIntensity == 320

ConfigAmbientColor == <<20, 30, 20>>

ConfigAmbientIntensity == 5

\* The plant's light and ambient values of setupPlantMaterial, in hundredths.
PlantLightColor == <<40, 50, 30>>

PlantLightIntensity == 220

PlantAmbientColor == <<15, 20, 15>>

PlantAmbientIntensity == 5

\* mesh.material.shininess || 32.0
FallbackShininess == 3200

\* indices.length of the sphere: two triangles for each of 30 x 30 bands.
SphereIndexCount == 30 * 30 * 6

\* const radius = 15: the plant stands on top of the sphere.
SphereRadius == 15

\* let plantModel = null
NoPlant == [ meshes |-> <<>>, indices |-> <<>>, loaded |-> FALSE ]


\* null as a texture, and a unit with no texture bound.  A texture handle is
\* the place of its object in textureObjects.
NoTexture == 0

\* new Uint8Array([0, 0, 255, 255]): the blue pixel of createTemporaryTexture.
TemporaryPixel == "0,0,255,255"

\* The sampler uniforms that bindTextures sets, in the order of the entries of
\* textures: the unit of the i-th is i - 1 (textureUnits).
SceneSamplers == << "albedoMap", "normalMap", "metallicMap", "roughnessMap", "aoMap" >>

\* loadSceneTextures: the five images, in the order they are requested; the
\* handle of the i-th, textures.albedo .. textures.ao, is i.
SceneTextureUrls ==
    << "js/textures/sand-dunes1_albedo.png",
       "js/textures/sand-dunes1_normal-dx.png",
       "js/textures/sand-dunes1_metallic.png",
       "js/textures/sand-dunes1_roughness.png",
       "js/textures/sand-dunes1_ao.png" >>

\* A fresh context: every uniform is zero, no buffer exists or is bound, unit 0
\* is active and no unit has a texture.  world is the world matrix as
\* <<rotation step, lift>>; units[u + 1] is the texture bound on unit u.
GlInit ==
    [ shininess          |-> 0,
      useSpecular        |-> 0,
      lightColor         |-> <<0, 0, 0>>,
      lightIntensity     |-> 0,
      ambientColor       |-> <<0, 0, 0>>,
      ambientIntensity   |-> 0,
      world              |-> <<0, 0>>,
      attributes         |-> "none",
      elementArrayBuffer |-> "none",
      buffers            |-> 0,
      activeTexture      |-> 0,
      units              |-> [u \in 1..6 |-> NoTexture],
      samplers           |-> [ albedoMap    |-> 0,
                               normalMap    |-> 0,
                               metallicMap  |-> 0,
                               roughnessMap |-> 0,
                               aoMap        |-> 0,
                               specularMap  |-> 0 ] ]

\* No frame has been rendered yet.  A frame is recorded with its time, the
\* position of the load and the texture units when it started, and its draw calls.
NoFrame == [ load |-> "idle", time |-> 0, ran |-> FALSE, draws |-> <<>>, before |-> <<>> ]

\* loadOBJWithMTL before it is called.  mtl and obj tell what each fetch met:
\* "none" (not issued), "pending", "ok", "notFound" (an HTTP 404 response) or
\* "networkError" (the fetch promise rejected).
LoadInit ==
    [ obj     |-> "none",
      mtl     |-> "none",
      pc      |-> "idle",
      mtlText |-> "",
      fetches |-> 0 ]

\* requestAnimationFrame(render)
RequestAnimationFrame(queue) == queue + 1

\* gl.createBuffer()
CreateBuffer(g) == [g EXCEPT !.buffers = @ + 1]

\* gl.activeTexture(gl.TEXTURE0 + unit)
ActiveTexture(g, unit) == [g EXCEPT !.activeTexture = unit]

\* gl.bindTexture(gl.TEXTURE_2D, texture): on the active unit, whatever it is.
BindTexture(g, texture) == [g EXCEPT !.units[g.activeTexture + 1] = texture]

\* gl.uniform1i(programInfo.uniformLocations[sampler], unit)
SetSampler(g, sampler, unit) == [g EXCEPT !.samplers[sampler] = unit]

\* gl.texImage2D(gl.TEXTURE_2D, ...): the pixels go into the texture bound on
\* the active unit; with none bound the call is an error and changes nothing.
TexImage2D(g, objects, pixels) ==
    LET bound == g.units[g.activeTexture + 1]
    IN  IF bound = NoTexture THEN objects ELSE [objects EXCEPT ![bound].pixels = pixels]

\* loadImageTexture(gl, url): createTexture, bindTexture, the temporary pixel,
\* and the image's load listener registered (loading).
LoadImageTexture(st, url) ==
    LET texture == Len(st.textures) + 1
        created == Append(st.textures, [pixels |-> "", url |-> url, loading |-> TRUE])
        bound   == BindTexture(st.gl, texture)
    IN  [ gl |-> bound, textures |-> TexImage2D(bound, created, TemporaryPixel) ]

\* loadImageTexture for each url in turn.
RECURSIVE LoadImageTextures(_, _)
LoadImageTextures(st, urls) ==
    IF urls = <<>> THEN st ELSE LoadImageTextures(LoadImageTexture(st, Head(urls)), Tail(urls))

\* The load listener of loadImageFromURL: bindTexture(texture), then texImage2D(image).
OnImageLoad(st, texture) ==
    LET bound == BindTexture(st.gl, texture)
    IN  [ gl |-> bound,
          textures |-> [TexImage2D(bound, st.textures, st.textures[texture].url)
                            EXCEPT ![texture].loading = FALSE] ]

\* initPlantBuffers: the model with its buffers; the object is truthy.  The
\* index buffer receives model.indices as they are.
InitPlantBuffers(model) ==
    [ meshes |-> model.meshes, indices |-> model.indices, loaded |-> TRUE ]

\* Mutant of BindTextures: the sampler uniforms are set, the units are left as they are.
RECURSIVE BindTexturesSamplersOnly(_, _)
BindTexturesSamplersOnly(g, i) ==
    IF i > Len(SceneSamplers) THEN g
    ELSE BindTexturesSamplersOnly(SetSampler(ActiveTexture(g, i - 1), SceneSamplers[i], i - 1), i + 1)

\* bindTextures, from the i-th entry of textures on: activeTexture, bindTexture, uniform1i.
RECURSIVE BindTextures(_, _)
BindTextures(g, i) ==
    IF i > Len(SceneSamplers) THEN g
    ELSE BindTextures(SetSampler(BindTexture(ActiveTexture(g, i - 1), i), SceneSamplers[i], i - 1), i + 1)

\* mesh.material.map_*: the handle of the texture parseMTL made for the field,
\* undefined (bound as null) without it.  parseMTL runs once, after main made
\* the scene's textures, so its k-th texture is the handle Len(SceneTextureUrls) + k.
MaterialTexture(material, field) ==
    IF field \in DOMAIN material THEN Len(SceneTextureUrls) + material[field] ELSE NoTexture

\* The texture binds of setupPlantMaterial: map_Kd on unit 0, map_Bump on unit 1,
\* map_Ks || map_Kd on unit 5.
BindMaterialTextures(g, material) ==
    LET albedo   == SetSampler(BindTexture(ActiveTexture(g, 0), MaterialTexture(material, "map_Kd")),
                               "albedoMap", 0)
        normal   == SetSampler(BindTexture(ActiveTexture(albedo, 1), MaterialTexture(material, "map_Bump")),
                               "normalMap", 1)
        specular == IF "map_Ks" \in DOMAIN material
                    THEN MaterialTexture(material, "map_Ks")
                    ELSE MaterialTexture(material, "map_Kd")
    IN  SetSampler(BindTexture(ActiveTexture(normal, 5), specular), "specularMap", 5)

\* setupAttributes: the three attribute pointers read the sphere's buffers.
SetupAttributes(g) == [g EXCEPT !.attributes = "sphere"]

\* updateUniforms: the world matrix of this frame and the CONFIG lights.
UpdateUniforms(g, t) ==
    [g EXCEPT !.world            = <<t, 0>>,
              !.lightColor       = ConfigLightColor,
              !.lightIntensity   = ConfigLightIntensity,
              !.ambientColor     = ConfigAmbientColor,
              !.ambientIntensity = ConfigAmbientIntensity]

\* gl.drawElements: the call is recorded with the context it was issued under.
DrawElements(st, count, offset) ==
    [st EXCEPT !.draws = Append(@, [gl |-> st.gl, count |-> count, offset |-> offset])]

\* Mutant of SetupPlantMaterial: the plant-specific lighting is left out.
SetupPlantMaterialNoLights(g, mesh) ==
    [BindMaterialTextures(g, mesh.material)
        EXCEPT !.shininess = JsOr(mesh.material.shininess, FallbackShininess)]

\* setupPlantMaterial: the textures and the shininess of the mesh, and the plant's lighting.
SetupPlantMaterial(g, mesh) ==
    [BindMaterialTextures(g, mesh.material)
       EXCEPT !.shininess        = JsOr(mesh.material.shininess, FallbackShininess),
              !.lightColor       = PlantLightColor,
              !.lightIntensity   = PlantLightIntensity,
              !.ambientColor     = PlantAmbientColor,
              !.ambientIntensity = PlantAmbientIntensity]

\* The mesh loop of drawPlant: if (mesh.material) setupPlantMaterial(mesh); drawElements.
RECURSIVE DrawMeshes(_, _)
DrawMeshes(st, ms) ==
    IF ms = <<>> THEN st
    ELSE LET mesh == Head(ms)
             set  == IF "material" \in DOMAIN mesh
                     THEN [st EXCEPT !.gl = SetupPlantMaterial(@, mesh)]
                     ELSE st
         IN  DrawMeshes(DrawElements(set, mesh.indexCount, mesh.startIndex * 2), Tail(ms))

\* Mutant of DrawPlant: the scene's lighting is not restored after the meshes.
DrawPlantNoRestore(st, plant) ==
    LET bound == [st EXCEPT !.gl.useSpecular = 1,
                            !.gl.world = <<@[1], SphereRadius>>,
                            !.gl.attributes = "plant",
                            !.gl.elementArrayBuffer = "plant"]
    IN  DrawMeshes(bound, plant.meshes)

\* drawPlant: specular on, the lifted world matrix, the plant's buffers, the meshes, then the CONFIG lights again.
DrawPlant(st, plant) ==
    LET bound == [st EXCEPT !.gl.useSpecular = 1,
                            !.gl.world = <<@[1], SphereRadius>>,
                            !.gl.attributes = "plant",
                            !.gl.elementArrayBuffer = "plant"]
        drawn == DrawMeshes(bound, plant.meshes)
    IN  [drawn EXCEPT !.gl.lightColor       = ConfigLightColor,
                      !.gl.lightIntensity   = ConfigLightIntensity,
                      !.gl.ambientColor     = ConfigAmbientColor,
                      !.gl.ambientIntensity = ConfigAmbientIntensity]

\* Mutant of Render: the next frame is requested only once the plant is there.
RenderWaitsForPlant(g, plant, t) ==
    LET ready  == BindTextures(UpdateUniforms(SetupAttributes(g), t), 1)
        sphere == [ready EXCEPT !.useSpecular = 0, !.elementArrayBuffer = "sphere"]
        first  == DrawElements([gl |-> sphere, draws |-> <<>>], SphereIndexCount, 0)
        last   == IF plant.loaded THEN DrawPlant(first, plant) ELSE first
    IN  [ gl |-> last.gl, draws |-> last.draws,
          queue |-> IF plant.loaded THEN RequestAnimationFrame(0) ELSE 0 ]

\* render(time): the sphere, the plant if plantModel is set, then the next frame's request.
Render(g, plant, t) ==
    LET ready  == BindTextures(UpdateUniforms(SetupAttributes(g), t), 1)
        sphere == [ready EXCEPT !.useSpecular = 0, !.elementArrayBuffer = "sphere"]
        first  == DrawElements([gl |-> sphere, draws |-> <<>>], SphereIndexCount, 0)
        last   == IF plant.loaded THEN DrawPlant(first, plant) ELSE first
    IN  [ gl |-> last.gl, draws |-> last.draws, queue |-> RequestAnimationFrame(0) ]

-----------------------------------------------------------------------------
\* What the server may answer to the two fetches, and the frames explored.

\* The animation clock wraps after this many frames (the scene reads the time
\* only through rotation angles).
TimePeriod == 4

\* The body of an HTTP 404 response: a page, not a model.
ErrorPage == << [cmd |-> "<h1>404", args |-> <<"Not", "Found</h1>">>] >>

\* bitki.mtl as it may be served: one material with a texture, a material
\* without properties, or a property before any newmtl.
MtlTexts == { "leaf", "plain", "orphan" }

\* bitki.obj as it may be served: three spans, one triangle, or no face at all.
ObjTexts == { "threeSpans", "triangle", "comment" }

MtlText(name) ==
    CASE name = "leaf"   -> << [cmd |-> "newmtl", args |-> <<"A">>],
                               [cmd |-> "Ns", args |-> <<5000>>],
                               [cmd |-> "map_Kd", args |-> <<"leaf.png">>] >>
      [] name = "plain"  -> << [cmd |-> "newmtl", args |-> <<"B">>] >>
      [] name = "orphan" -> << [cmd |-> "Ns", args |-> <<5000>>] >>
      [] OTHER           -> ErrorPage

ObjText(name) ==
    CASE name = "threeSpans" -> ThreeSpans
      [] name = "triangle"   -> << [cmd |-> "f", args |-> FaceOf("abs", 3)] >>
      [] name = "comment"    -> << [cmd |-> "#", args |-> <<>>] >>
      [] OTHER               -> ErrorPage

\* A response: response.ok and the text that response.text() yields.
Responses(texts) ==
    { [ok |-> TRUE, text |-> t] : t \in texts } \cup { [ok |-> FALSE, text |-> "notFound"] }

\* parseMTL of every text the MTL fetch may yield.
MtlParsed == [m \in MtlTexts \cup {"notFound"} |-> ParseMTL(MtlText(m))]

\* parseOBJ of every text the OBJ fetch may yield.
ObjParsed == [o \in ObjTexts \cup {"notFound"} |-> ParseOBJ(ObjText(o))]

\* What the fetch met, as the load records it.
Met(response) == IF response.ok THEN "ok" ELSE "notFound"

\* .catch(error => console.error('Error loading plant model:', error))
LoadError == "Error loading plant model:"

\* What main may meet: a context and a program, no context, a shader that
\* does not compile, or a program that does not link.
Outcomes == { "ok", "noContext", "compileError", "linkError" }

\* The console.error of main, loadShader and initShaderProgram.
Logged(outcome) ==
    CASE outcome = "noContext"    -> << "WebGL not supported" >>
      [] outcome = "compileError" -> << "An error occurred compiling the shaders: " >>
      [] outcome = "linkError"    -> << "Unable to initialize the shader program: " >>
      [] OTHER                    -> << >>

\* Mutant of MainReturns: main goes on without a program.
MainReturnsWithoutContext(outcome) == outcome = "noContext"

\* if (!gl) return and if (!program) return.  (A shader that fails to compile
\* is null, and attachShader(program, null) throws: main ends there as well.)
MainReturns(outcome) == outcome # "ok"

\* main(): the program, the sphere's four buffers, the scene's textures, the
\* plant load and the first frame's request.
Main ==
    /\ mainPc = "start"
    /\ \E outcome \in Outcomes :
          /\ console' = console \o Logged(outcome)
          /\ IF MainReturns(outcome)
             THEN /\ mainPc' = "aborted"
                  /\ UNCHANGED <<gl, textureObjects, load, rafQueue>>
             ELSE LET buffers == CreateBuffer(CreateBuffer(CreateBuffer(CreateBuffer(gl))))
                      sphere  == [buffers EXCEPT !.elementArrayBuffer = "sphere"]
                      made    == LoadImageTextures([gl |-> sphere, textures |-> textureObjects],
                                                   SceneTextureUrls)
                  IN  /\ mainPc' = "running"
                      /\ gl' = made.gl
                      /\ textureObjects' = made.textures
                      /\ load' = [load EXCEPT !.pc = "mtl", !.mtl = "pending", !.fetches = @ + 1]
                      /\ rafQueue' = RequestAnimationFrame(rafQueue)
    /\ UNCHANGED <<plantModel, time, frame, objVars, mtlVars, camVars, uploadVars>>

\* fetch(mtlUrl) resolved: response.text(), parseMTL, then fetch(objUrl).  The
\* response's status is not read.  parseMTL makes a texture for every map line
\* it meets; a throw in parseMTL rejects the load.
MtlResponse ==
    /\ load.pc = "mtl"
    /\ \E response \in Responses(MtlTexts) :
          /\ LET made == LoadImageTextures([gl |-> gl, textures |-> textureObjects],
                                          MtlParsed[response.text].textures)
             IN  /\ gl' = made.gl
                 /\ textureObjects' = made.textures
          /\ IF MtlParsed[response.text].threw
             THEN /\ load' = [load EXCEPT !.pc = "failed", !.mtl = Met(response)]
                  /\ console' = Append(console, LoadError)
             ELSE /\ load' = [load EXCEPT !.pc = "obj", !.mtl = Met(response), !.obj = "pending",
                                          !.mtlText = response.text, !.fetches = @ + 1]
                  /\ UNCHANGED console
    /\ UNCHANGED <<mainPc, plantModel, rafQueue, time, frame, objVars, mtlVars, camVars, uploadVars>>

\* fetch(mtlUrl) rejected: the load rejects and main's catch logs it.
MtlNetworkError ==
    /\ load.pc = "mtl"
    /\ load' = [load EXCEPT !.pc = "failed", !.mtl = "networkError"]
    /\ console' = Append(console, LoadError)
    /\ UNCHANGED <<mainPc, plantModel, gl, textureObjects, rafQueue, time, frame,
                   objVars, mtlVars, camVars, uploadVars>>

\* fetch(objUrl) resolved: response.text(), parseOBJ, createGeometryWithMaterials,
\* resolve, and main's then: plantModel = initPlantBuffers(gl, model), which
\* leaves the plant's index buffer bound.
ObjResponse ==
    /\ load.pc = "obj"
    /\ \E response \in Responses(ObjTexts) :
          /\ plantModel' = InitPlantBuffers(
                              CreateGeometryWithMaterials(ObjParsed[response.text],
                                                          MtlParsed[load.mtlText].materials))
          /\ load' = [load EXCEPT !.pc = "done", !.obj = Met(response)]
    /\ gl' = [CreateBuffer(CreateBuffer(CreateBuffer(CreateBuffer(gl))))
                 EXCEPT !.elementArrayBuffer = "plant"]
    /\ UNCHANGED <<mainPc, textureObjects, rafQueue, time, frame, console,
                   objVars, mtlVars, camVars, uploadVars>>

\* fetch(objUrl) rejected: the load rejects and main's catch logs it.
ObjNetworkError ==
    /\ load.pc = "obj"
    /\ load' = [load EXCEPT !.pc = "failed", !.obj = "networkError"]
    /\ console' = Append(console, LoadError)
    /\ UNCHANGED <<mainPc, plantModel, gl, textureObjects, rafQueue, time, frame,
                   objVars, mtlVars, camVars, uploadVars>>

\* One animation frame: the browser takes a waiting callback and runs render(time).
RenderFrame ==
    /\ mainPc = "running"
    /\ rafQueue > 0
    /\ LET done == Render(gl, plantModel, time)
       IN  /\ gl' = done.gl
           /\ frame' = [load |-> load.pc, time |-> time, ran |-> TRUE, draws |-> done.draws,
                        before |-> gl.units]
           /\ rafQueue' = (rafQueue - 1) + done.queue
    /\ time' = (time + 1) % TimePeriod
    /\ UNCHANGED <<mainPc, load, plantModel, textureObjects, console,
                   objVars, mtlVars, camVars, uploadVars>>

\* An image has arrived: the browser runs the load listener of its texture.
\* (An image that fails to load has no listener: its texture stays loading.)
ImageLoad ==
    /\ \E texture \in 1..Len(textureObjects) :
          /\ textureObjects[texture].loading
          /\ LET done == OnImageLoad([gl |-> gl, textures |-> textureObjects], texture)
             IN  /\ gl' = done.gl
                 /\ textureObjects' = done.textures
    /\ UNCHANGED <<mainPc, load, plantModel, rafQueue, time, frame, console,
                   objVars, mtlVars, camVars, uploadVars>>

SceneStart ==
    /\ mainPc = "start"
    /\ load = LoadInit
    /\ plantModel = NoPlant
    /\ gl = GlInit
    /\ textureObjects = <<>>
    /\ rafQueue = 0
    /\ time = 0
    /\ frame = NoFrame
    /\ console = <<>>

\* The scene while no image arrives.
NextFrames ==
    \/ Main
    \/ MtlResponse
    \/ MtlNetworkError
    \/ ObjResponse
    \/ ObjNetworkError
    \/ RenderFrame

Next ==
    \/ Main
    \/ MtlResponse
    \/ MtlNetworkError
    \/ ObjResponse
    \/ ObjNetworkError
    \/ RenderFrame
    \/ ImageLoad

-----------------------------------------------------------------------------
\* The index buffer of a large mesh: createGeometryWithMaterials and
\* initPlantBuffers on the end of the index list of a mesh that has vertices
\* on both sides of the 65536th.

MaxIndices == 3

\* Indices that parseOBJ gives to the first vertices and to those around the 65536th.
IndexValues == { 0, 1, Uint16 - 1, Uint16, Uint16 + 1 }

\* parseOBJ's result, cut down to the indices looked at.
LargeMesh(indices) == [ParseOBJ(<<>>) EXCEPT !.indices = indices]

\* indices.push(index) for one more corner of the mesh.
EmitIndex ==
    /\ uploadPc = "parsed"
    /\ Len(objIndices) < MaxIndices
    /\ \E index \in IndexValues : objIndices' = Append(objIndices, index)
    /\ UNCHANGED <<indexBuffer, uploadPc, objVars, mtlVars, camVars, sceneVars>>

\* createGeometryWithMaterials, then initPlantBuffers: bufferData(model.indices).
UploadIndices ==
    /\ uploadPc = "parsed"
    /\ indexBuffer' = InitPlantBuffers(CreateGeometryWithMaterials(LargeMesh(objIndices), <<>>)).indices
    /\ uploadPc' = "uploaded"
    /\ UNCHANGED <<objIndices, objVars, mtlVars, camVars, sceneVars>>

UploadStart ==
    /\ objIndices = <<>>
    /\ indexBuffer = <<>>
    /\ uploadPc = "parsed"

NextUpload ==
    \/ EmitIndex
    \/ UploadIndices

-----------------------------------------------------------------------------
\* Specifications: every component starts as its constructor leaves it.

Init == ObjStart /\ MtlStart /\ CamStart /\ SceneStart /\ UploadStart

\* The scene: main, the load's completion handlers and the frames, in any order.
Spec == Init /\ [][Next]_vars

\* The scene with the browser's promise that a requested frame is delivered.
\* The image listeners are left out: they write texture state only, which no
\* guard of the frame loop reads.
SpecLive == Init /\ [][NextFrames]_vars /\ WF_vars(RenderFrame)

\* parseOBJ alone, over the OBJ documents.
SpecOBJ == Init /\ [][NextOBJ]_vars

\* parseOBJ alone, over the OBJ documents with irregular records.
SpecOBJIrregular == Init /\ [][NextOBJIrregular]_vars

\* parseMTL and createGeometryWithMaterials alone, over the MTL documents.
SpecMTL == Init /\ [][NextMTL]_vars

\* The camera alone, over the input events.
SpecCam == Init /\ [][NextCam]_vars

\* The index upload alone, over the index lists.
SpecUpload == Init /\ [][NextUpload]_vars

-----------------------------------------------------------------------------
\* Properties of parseOBJ

\* Triangles a line of the text asks for: k - 2 for a face of k >= 3 corners.
TrianglesOf(line) ==
    IF line.cmd = "f" /\ Len(line.args) >= 3 THEN Len(line.args) - 2 ELSE 0

RECURSIVE TrianglesBefore(_, _)
TrianglesBefore(doc, i) ==
    IF i <= 1 THEN 0 ELSE TrianglesBefore(doc, i - 1) + TrianglesOf(doc[i - 1])

\* C1: the number of triangles emitted is the sum over the face lines of k - 2
\* (nothing for k < 3), and the triangles of a face are the fan
\* (corner0, cornerI, cornerI+1), I = 1..k-2, in this order.
C1_FanTriangulation ==
    /\ Len(obj.indices) = 3 * TrianglesBefore(objDoc, Len(objDoc) + 1)
    /\ \A f \in 1..Len(obj.faces) :
         LET face == obj.faces[f]
             k == Len(face.vertices)
         IN  \A I \in 1..(k - 2) : \A c \in 0..2 :
               LET slot == 3 * (I - 1) + c + 1
                   corner == IF c = 0 THEN face.vertices[1] ELSE face.vertices[I + c]
                   call == obj.corners[face.calls + slot]
               IN  /\ call.raw = corner
                   /\ obj.indices[face.at + slot] = call.index

C1_Witness ==
    /\ objPc = "done"
    /\ \E i \in 1..Len(objDoc) : objDoc[i].cmd = "f" /\ Len(objDoc[i].args) = MaxCorners
    /\ \E i \in 1..Len(objDoc) : objDoc[i].cmd = "f" /\ Len(objDoc[i].args) = 2
    /\ \E i \in 1..Len(objDoc) : objDoc[i].cmd = "f" /\ Len(objDoc[i].args) = 3
    /\ Len(obj.indices) = 3 * (MaxCorners - 1)

\* C2: two addVertex calls get the same index exactly when their resolved
\* (posIndex, texIndex, normIndex) triples are equal, and a triple seen for the
\* first time gets the number of distinct triples seen before it.
C2_VertexDeduplication ==
    \A i \in 1..Len(obj.corners) :
        /\ \A j \in 1..Len(obj.corners) :
              (obj.corners[i].resolved = obj.corners[j].resolved)
                  <=> (obj.corners[i].index = obj.corners[j].index)
        /\ (\A j \in 1..(i - 1) : obj.corners[j].resolved # obj.corners[i].resolved)
              => obj.corners[i].index
                    = Cardinality({ obj.corners[j].resolved : j \in 1..(i - 1) })
        /\ obj.vertexCount = Cardinality({ obj.corners[j].resolved : j \in 1..Len(obj.corners) })

C2_Witness ==
    \E i, j, k \in 1..Len(obj.corners) :
        /\ i < j /\ j < k
        /\ obj.corners[i].resolved = obj.corners[k].resolved
        /\ obj.corners[i].raw # obj.corners[k].raw
        /\ obj.corners[i].resolved[1] = obj.corners[j].resolved[1]
        /\ obj.corners[i].resolved # obj.corners[j].resolved
        /\ obj.vertexCount >= 4

\* The material a line of the text is under: the last usemtl before it, else "default".
RECURSIVE MaterialAt(_, _)
MaterialAt(doc, i) ==
    IF i <= 1 THEN "default"
    ELSE IF doc[i - 1].cmd = "usemtl" THEN doc[i - 1].args[1]
    ELSE MaterialAt(doc, i - 1)

\* C3: the returned spans are non-empty, start at 0, follow one another without
\* gap or overlap up to indices.length, and the triangles of every face lie in a
\* span named by the usemtl before the face, "default" when there is none.
C3_SpansPartition ==
    objPc = "done" =>
        LET g == obj.geometries
            n == Len(g)
        IN  /\ \A i \in 1..n : g[i].indexCount > 0
            /\ n = 0 => Len(obj.indices) = 0
            /\ n > 0 => g[1].startIndex = 0
            /\ n > 0 => g[n].startIndex + g[n].indexCount = Len(obj.indices)
            /\ \A i \in 1..(n - 1) : g[i + 1].startIndex = g[i].startIndex + g[i].indexCount
            /\ \A i \in 1..Len(objDoc) :
                 TrianglesOf(objDoc[i]) > 0 =>
                   LET first == 3 * TrianglesBefore(objDoc, i)
                       last == first + 3 * TrianglesOf(objDoc[i]) - 1
                   IN  \E s \in 1..n :
                         /\ g[s].startIndex <= first
                         /\ last < g[s].startIndex + g[s].indexCount
                         /\ g[s].material = MaterialAt(objDoc, i)

C3_Witness ==
    /\ objPc = "done"
    /\ Len(obj.geometries) = 2
    /\ obj.geometries[1].material = "default"
    /\ obj.geometries[2].material = "A"
    /\ \E i \in 1..Len(objDoc) : \E j \in (i + 1)..Len(objDoc) :
          /\ objDoc[i].cmd = "usemtl" /\ objDoc[j].cmd = "usemtl"
          /\ \A m \in i..j : TrianglesOf(objDoc[m]) = 0

\* The position records declared by the text, in order.
RECURSIVE DeclaredPositions(_)
DeclaredPositions(doc) ==
    IF doc = <<>> THEN <<>>
    ELSE LET rest == DeclaredPositions(SubSeq(doc, 1, Len(doc) - 1))
             line == doc[Len(doc)]
         IN  IF line.cmd = "v" THEN Append(rest, line.args) ELSE rest

\* C4: a position reference -k of a face line resolves to the k-th most recently
\* declared position record before that line (-1 to the last one), for every
\* number of records; and a vertex that the reference creates carries that record.
C4_NegativeIndex ==
    (objPc = "lines" /\ objDoc # <<>> /\ objDoc[Len(objDoc)].cmd = "f") =>
        LET face == obj.faces[Len(obj.faces)]
            decl == DeclaredPositions(objDoc)
        IN  \A c \in (face.calls + 1)..Len(obj.corners) :
              LET call == obj.corners[c]
                  k == 0 - call.raw.vert
              IN  (IsNum(call.raw.vert) /\ k >= 1 /\ k <= Len(decl)) =>
                    /\ call.declared = Len(decl)
                    /\ call.resolved[1] = Len(decl) + 1 - k
                    /\ obj.positions[call.resolved[1] + 1] = decl[Len(decl) + 1 - k]
                    /\ call.fresh =>
                          SubSeq(obj.finalPositions, 3 * call.index + 1, 3 * call.index + 3)
                              = decl[Len(decl) + 1 - k]

C4_Witness ==
    /\ objPc = "lines" /\ objDoc # <<>> /\ objDoc[Len(objDoc)].cmd = "f"
    /\ Len(DeclaredPositions(objDoc)) = 2
    /\ DeclaredPositions(objDoc)[1] # DeclaredPositions(objDoc)[2]
    /\ \E c \in 1..Len(obj.corners) : obj.corners[c].raw.vert = 0 - 1 /\ obj.corners[c].fresh
    /\ \E c \in 1..Len(obj.corners) : obj.corners[c].raw.vert = 0 - 2 /\ obj.corners[c].fresh

-----------------------------------------------------------------------------
\* Properties of createGeometryWithMaterials

\* The keyword of the MTL text that defines a field of a material.
KeywordOf(field) ==
    CASE field = "shininess" -> "Ns"
      [] field = "ambient"   -> "Ka"
      [] field = "diffuse"   -> "Kd"
      [] field = "specular"  -> "Ks"
      [] field = "opacity"   -> "d"
      [] field = "illum"     -> "illum"

DefaultOf(field) ==
    CASE field = "shininess" -> DefaultShininess
      [] field = "ambient"   -> DefaultAmbient
      [] field = "diffuse"   -> DefaultDiffuse
      [] field = "specular"  -> DefaultSpecular
      [] field = "opacity"   -> DefaultOpacity
      [] field = "illum"     -> DefaultIllum

\* The lines of the text that belong to the material `name` of the mapping: those
\* after its last newmtl line and before the next newmtl line.
LinesOf(doc, name) ==
    LET starts == { i \in 1..Len(doc) : doc[i].cmd = "newmtl" /\ doc[i].args[1] = name }
    IN  IF starts = {} THEN {}
        ELSE LET last == CHOOSE i \in starts : \A j \in starts : j <= i
             IN  { j \in (last + 1)..Len(doc) :
                     \A m \in (last + 1)..j : doc[m].cmd # "newmtl" }

Declares(doc, name) == \E i \in 1..Len(doc) : doc[i].cmd = "newmtl" /\ doc[i].args[1] = name

Defines(doc, name, field) == \E j \in LinesOf(doc, name) : doc[j].cmd = KeywordOf(field)

\* C5: in every mesh, each of the six fields that the MTL text does not define for
\* the mesh's material has its default, whatever other fields the material
\* defines; a mesh whose material the text does not declare has all six defaults.
C5_MaterialDefaults ==
    mtlPc = "resolved" =>
        \A g \in 1..Len(meshes) :
            LET name == ThreeSpansData.geometries[g].material
            IN  \A f \in DefaultedFields :
                  ~Defines(mtlDoc, name, f) => meshes[g].material[f] = DefaultOf(f)

C5_Witness ==
    /\ mtlPc = "resolved"
    /\ Len(meshes) = 3
    /\ ~Declares(mtlDoc, "default")
    /\ Declares(mtlDoc, "A")
    /\ Defines(mtlDoc, "A", "shininess")
    /\ \A f \in DefaultedFields \ {"shininess"} : ~Defines(mtlDoc, "A", f)
    /\ meshes[2].material["shininess"] = 5000
    /\ meshes[2].material["ambient"] = DefaultAmbient
    /\ Declares(mtlDoc, "B")
    /\ Defines(mtlDoc, "B", "diffuse")

-----------------------------------------------------------------------------
\* Properties of the camera

\* C6: after the constructor and after every pointer-lock change and mousemove
\* event, the pitch is within [-89, 89] and the distance within
\* [MIN_DISTANCE, MAX_DISTANCE].
C6_CameraClamp ==
    /\ camera.rotationX >= MinPitch /\ camera.rotationX <= MaxPitch
    /\ camera.distance >= MinDistance /\ camera.distance <= MaxDistance

C6_Witness ==
    /\ camera.rotationX = MaxPitch
    /\ camera.distance = MinDistance
    /\ camera.rotationY # 0
    /\ camEvents = 3

-----------------------------------------------------------------------------
\* Properties of the scene

\* The four light and ambient uniforms of a context hold the CONFIG constants.
SceneLights(g) ==
    /\ g.lightColor = ConfigLightColor
    /\ g.lightIntensity = ConfigLightIntensity
    /\ g.ambientColor = ConfigAmbientColor
    /\ g.ambientIntensity = ConfigAmbientIntensity

\* The four light and ambient uniforms of a context hold the plant's values.
PlantLights(g) ==
    /\ g.lightColor = PlantLightColor
    /\ g.lightIntensity = PlantLightIntensity
    /\ g.ambientColor = PlantAmbientColor
    /\ g.ambientIntensity = PlantAmbientIntensity

\* The first draw call of a frame is the sphere's; the plant's follow it.
SphereDraw(f) == f.draws[1]

PlantDraws(f) == Tail(f.draws)

\* C7: in every frame the sphere's draw call is issued from the sphere's index
\* buffer with uUseSpecular = 0 and the four light and ambient uniforms equal to
\* CONFIG; and after a frame that ran drawPlant (it leaves uUseSpecular = 1)
\* the four uniforms hold the CONFIG constants again.
C7_SphereLighting ==
    frame.ran =>
        /\ Len(frame.draws) >= 1
        /\ SphereDraw(frame).gl.elementArrayBuffer = "sphere"
        /\ SphereDraw(frame).gl.attributes = "sphere"
        /\ SphereDraw(frame).count = SphereIndexCount
        /\ SphereDraw(frame).gl.useSpecular = 0
        /\ SceneLights(SphereDraw(frame).gl)
        /\ (gl.useSpecular = 1 => SceneLights(gl))

\* C7 witness: a sphere draw issued with the scene's lighting while uShininess
\* still holds what a plant mesh of an earlier frame set, in a frame that drew
\* the plant's meshes again.
C7_Witness ==
    /\ frame.ran
    /\ SphereDraw(frame).gl.shininess # 0
    /\ SphereDraw(frame).gl.useSpecular = 0
    /\ SceneLights(SphereDraw(frame).gl)
    /\ Len(PlantDraws(frame)) >= 2
    /\ PlantLights(frame.draws[Len(frame.draws)].gl)
    /\ SceneLights(gl)

\* The draw calls drawPlant owes to a plant model: none while it is absent, and
\* one per submesh, in order, over the submesh's range of the index buffer.
PlantDrawsMatch(draws, plant) ==
    /\ Len(draws) = IF plant.loaded THEN Len(plant.meshes) ELSE 0
    /\ \A i \in 1..Len(draws) :
          /\ draws[i].count = plant.meshes[i].indexCount
          /\ draws[i].offset = plant.meshes[i].startIndex * 2
          /\ draws[i].gl.elementArrayBuffer = "plant"
          /\ draws[i].gl.attributes = "plant"
          /\ draws[i].gl.useSpecular = 1
          /\ PlantLights(draws[i].gl)

\* C8: a frame draws the plant exactly when plantModel was published before the
\* frame started: its plant draw calls are none while plantModel is absent and
\* otherwise one per submesh, each with uUseSpecular = 1 and the plant's light
\* and ambient values; and a published plantModel is never taken back.
C8_PlantDrawnIffPublished ==
    /\ [][frame' # frame => PlantDrawsMatch(PlantDraws(frame'), plantModel)]_vars
    /\ [][plantModel.loaded => plantModel' = plantModel]_vars

\* C8 witness: the first frame after the publication of a plant of three
\* submeshes (uShininess is still untouched at the sphere's draw) has issued the
\* three plant draws.
C8_Witness ==
    /\ frame.ran
    /\ plantModel.loaded
    /\ Len(plantModel.meshes) = 3
    /\ Len(PlantDraws(frame)) = 3
    /\ SphereDraw(frame).gl.shininess = 0
    /\ \A i \in 1..3 : PlantDraws(frame)[i].gl.useSpecular = 1 /\ PlantLights(PlantDraws(frame)[i].gl)

\* A fetch of the load failed: the promise rejected or the answer was an HTTP 404.
FetchFailed ==
    \/ load.mtl \in { "networkError", "notFound" }
    \/ load.obj \in { "networkError", "notFound" }

\* C9: if the fetch of the MTL or of the OBJ document fails, by network error or
\* by an HTTP error response, then plantModel stays absent, the load ends
\* rejected with an error logged, no further fetch is issued, no plant draw call
\* occurs, and every frame still draws the sphere.
C9_FetchFailureHandled ==
    FetchFailed =>
        /\ plantModel = NoPlant
        /\ load.pc = "failed"
        /\ console = <<LoadError>>
        /\ load.fetches = (IF load.obj = "none" THEN 1 ELSE 2)
        /\ (frame.ran => Len(frame.draws) = 1 /\ SphereDraw(frame).gl.elementArrayBuffer = "sphere")

\* The same for a fetch promise that rejects (a network error): this the code does.
NetworkErrorHandled ==
    (load.mtl = "networkError" \/ load.obj = "networkError") =>
        /\ plantModel = NoPlant
        /\ load.pc = "failed"
        /\ console = <<LoadError>>
        /\ load.fetches = (IF load.obj = "none" THEN 1 ELSE 2)
        /\ (frame.ran => Len(frame.draws) = 1 /\ SphereDraw(frame).gl.elementArrayBuffer = "sphere")

\* C10: once main has requested the first frame, exactly one render callback is
\* waiting between frames, and the clock of the frames keeps advancing: frames
\* are rendered again and again, whatever the load does and whenever.
C10_RenderLoopNeverStalls ==
    /\ [](mainPc = "running" => rafQueue = 1)
    /\ \A t \in 0..(TimePeriod - 1) : (mainPc = "running" /\ time = t) ~> (time # t)

\* C10 witness: a frame that started after the load had failed has been
\* rendered, the clock has wrapped, and the next callback is waiting.
C10_Witness ==
    /\ frame.ran
    /\ frame.load = "failed"
    /\ frame.time = TimePeriod - 1
    /\ time = 0
    /\ rafQueue = 1

-----------------------------------------------------------------------------
\* Properties of the scene's textures and of main's start

\* The texture that a draw call samples through a sampler uniform.
Sampled(g, sampler) == g.units[g.samplers[sampler] + 1]

\* The pixel a neutral default texture would hold for a sampler: white for
\* albedo, ao and specular, 0 for metallic, 0.5 for roughness, the flat normal.
NeutralPixel(sampler) ==
    CASE sampler = "metallicMap"  -> "0,0,0,255"
      [] sampler = "roughnessMap" -> "128,128,128,255"
      [] sampler = "normalMap"    -> "128,128,255,255"
      [] OTHER                    -> "255,255,255,255"

\* The draw call samples a texture of its own that holds the neutral pixel.
SamplesNeutral(g, sampler) ==
    /\ Sampled(g, sampler) # NoTexture
    /\ Sampled(g, sampler) > Len(SceneTextureUrls)
    /\ textureObjects[Sampled(g, sampler)].pixels = NeutralPixel(sampler)

\* The samplers a material field feeds: map_Ks || map_Kd feeds the specular one.
Undefined(material, sampler) ==
    CASE sampler = "albedoMap"   -> "map_Kd" \notin DOMAIN material
      [] sampler = "normalMap"   -> "map_Bump" \notin DOMAIN material
      [] sampler = "specularMap" -> "map_Ks" \notin DOMAIN material /\ "map_Kd" \notin DOMAIN material
      [] OTHER                   -> TRUE

AllSamplers == { "albedoMap", "normalMap", "metallicMap", "roughnessMap", "aoMap", "specularMap" }

\* C11: at every draw call of a plant submesh, every texture map that the
\* submesh's material does not define (albedo, normal, specular, and the
\* metallic, roughness and ao maps that no material defines) is sampled from a
\* neutral default texture: the sampler's unit is not left without a texture and
\* not left with a texture of the sphere.
C11_UndefinedMapsNeutral ==
    frame.ran =>
        \A i \in 1..Len(PlantDraws(frame)) : \A sampler \in AllSamplers :
            Undefined(plantModel.meshes[i].material, sampler) =>
                SamplesNeutral(PlantDraws(frame)[i].gl, sampler)

\* What the code does for an undefined map: the albedo, normal and specular
\* units are left without a texture, the metallic, roughness and ao units keep
\* the sphere's textures.
UndefinedMapsUnboundOrSphere ==
    frame.ran =>
        \A i \in 1..Len(PlantDraws(frame)) : \A sampler \in AllSamplers :
            Undefined(plantModel.meshes[i].material, sampler) =>
                Sampled(PlantDraws(frame)[i].gl, sampler) =
                    CASE sampler = "metallicMap"  -> 3
                      [] sampler = "roughnessMap" -> 4
                      [] sampler = "aoMap"        -> 5
                      [] OTHER                    -> NoTexture

\* An error of loadShader or of initShaderProgram has been logged.
ShaderErrorLogged ==
    \E i \in 1..Len(console) : <<console[i]>> \in { Logged("compileError"), Logged("linkError") }

\* C13: if a shader fails to compile or the program fails to link, the error is
\* logged and main ends there: no buffer is created, the plant load is never
\* issued, and no frame is requested or rendered.
C13_ShaderFailureAborts ==
    /\ (mainPc # "start" /\ gl.buffers = 0) => console # <<>>
    /\ ShaderErrorLogged =>
          /\ mainPc = "aborted"
          /\ gl.buffers = 0
          /\ load = LoadInit
          /\ plantModel = NoPlant
          /\ rafQueue = 0
          /\ ~frame.ran

\* C13 witness: main has ended on a shader that did not compile.
C13_Witness ==
    /\ mainPc = "aborted"
    /\ console = Logged("compileError")
    /\ gl = GlInit

\* C20: at every draw call of the sphere, the units 0 to 4 hold the scene's
\* albedo, normal, metallic, roughness and ao textures and the five samplers
\* read these units, whatever the image listeners and parseMTL bound between
\* the frames; and every texture holds the temporary pixel until its own image
\* arrives, and its own image from then on.
C20_TextureBindingsPerFrame ==
    /\ frame.ran =>
          \A i \in 1..Len(SceneSamplers) :
              /\ SphereDraw(frame).gl.units[i] = i
              /\ SphereDraw(frame).gl.samplers[SceneSamplers[i]] = i - 1
    /\ \A texture \in 1..Len(textureObjects) :
          textureObjects[texture].pixels =
              IF textureObjects[texture].loading
              THEN TemporaryPixel
              ELSE textureObjects[texture].url

\* C20 witness: a frame has been rendered that found unit 4 with a texture of
\* the plant, bound there by a listener or by parseMTL after the frame before,
\* and every image has arrived.
C20_Witness ==
    /\ frame.ran
    /\ frame.before[5] > Len(SceneTextureUrls)
    /\ Len(textureObjects) > Len(SceneTextureUrls)
    /\ \A texture \in 1..Len(textureObjects) : ~textureObjects[texture].loading

-----------------------------------------------------------------------------
\* Properties of the index upload

\* C19: the indices that the plant is drawn from are the indices parseOBJ
\* returned, for a mesh of any number of vertices.
C19_IndicesUploadedUnchanged ==
    uploadPc = "uploaded" => indexBuffer = objIndices

\* The same for the indices below 65536: this the code does.
SmallIndicesUploadedUnchanged ==
    uploadPc = "uploaded" =>
        /\ Len(indexBuffer) = Len(objIndices)
        /\ \A j \in 1..Len(objIndices) :
              /\ objIndices[j] < Uint16 => indexBuffer[j] = objIndices[j]
              /\ objIndices[j] >= Uint16 => indexBuffer[j] = objIndices[j] - Uint16

-----------------------------------------------------------------------------
\* Further properties of parseMTL and createGeometryWithMaterials

\* C14: parseMTL raises no error on any sequence of lines, a property line
\* before the first newmtl included, and the mapping it returns holds every
\* material that a newmtl line of the text names.
C14_ParseMTLNeverAborts ==
    /\ mtlPc # "threw"
    /\ ~mtl.threw
    /\ mtlPc \in { "parsed", "resolved" } =>
          \A n \in MtlNames : Declares(mtlDoc, n) => n \in DOMAIN mtl.materials

\* The same while the first line that is no comment is a newmtl line: then
\* parseMTL does not throw.
ParseMTLReturnsAfterNewmtl ==
    (\E i \in 1..Len(mtlDoc) :
        /\ mtlDoc[i].cmd = "newmtl"
        /\ \A j \in 1..(i - 1) : mtlDoc[j].cmd = "#")
    => ~mtl.threw

\* The line that gives the field of a material its final value: the last line with
\* the field's keyword among the material's lines.
LastDefinition(doc, name, field) ==
    CHOOSE j \in LinesOf(doc, name) :
        /\ doc[j].cmd = KeywordOf(field)
        /\ \A m \in LinesOf(doc, name) : doc[m].cmd = KeywordOf(field) => m <= j

\* The value a property line states, as its handler parses it.
ParsedValue(line) ==
    IF line.cmd \in VectorKeys THEN [j \in 1..Len(line.args) |-> ParseFloat(line.args[j])]
    ELSE IF line.cmd = "illum" THEN ParseInt(Part(line.args, 0))
    ELSE ParseFloat(Part(line.args, 0))

\* C15: in every mesh, each of the six fields that the MTL text defines for the
\* mesh's material carries exactly the parsed value, 0 included; a default
\* appears only in a field the material does not define.
C15_DefinedFieldsPreserved ==
    mtlPc = "resolved" =>
        \A g \in 1..Len(meshes) :
            LET name == ThreeSpansData.geometries[g].material
            IN  \A f \in DefaultedFields :
                  Defines(mtlDoc, name, f) =>
                      meshes[g].material[f] = ParsedValue(mtlDoc[LastDefinition(mtlDoc, name, f)])

\* What the resolver does keep: a defined field whose parsed value is a colour or
\* a number other than 0.
TruthyFieldsPreserved ==
    mtlPc = "resolved" =>
        \A g \in 1..Len(meshes) :
            LET name == ThreeSpansData.geometries[g].material
            IN  \A f \in DefaultedFields :
                  Defines(mtlDoc, name, f) =>
                      LET value == ParsedValue(mtlDoc[LastDefinition(mtlDoc, name, f)])
                          zero  == f \in { "shininess", "opacity", "illum" } /\ value = 0
                      IN  meshes[g].material[f] = IF zero THEN DefaultOf(f) ELSE value

-----------------------------------------------------------------------------
\* Further properties of the camera

\* The fields of the camera that differ between two of its states.
Changed(c, d) == { f \in DOMAIN c : c[f] # d[f] }

\* The fields a mousemove event with these buttons may write.
Writes(buttons) ==
    CASE buttons = 1 -> { "rotationX", "rotationY" }
      [] buttons = 4 -> { "distance" }
      [] buttons = 2 -> { "positionX", "positionY" }
      [] OTHER       -> {}

\* C18: in every state the camera reaches, a mousemove event changes nothing
\* while the pointer is not locked; while it is locked the event changes at most
\* rotationX and rotationY with the primary button, distance with the middle
\* button, positionX and positionY with the secondary button, and nothing with
\* any other button state.
C18_PointerFrameConditions ==
    \A b \in ButtonStates : \A dx \in Movements : \A dy \in Movements :
        LET after == OnMouseMove(camera, b, dx, dy)
        IN  /\ ~camera.isPointerLocked => after = camera
            /\ Changed(camera, after) \subseteq Writes(b)

\* C18 witness: with the pointer locked, one event per button has acted: the
\* rotation, the distance and the position have each left their start value.
C18_Witness ==
    /\ camera.isPointerLocked
    /\ camEvents = 4
    /\ camera.rotationY # 0
    /\ camera.distance # StartDistance
    /\ camera.positionX # 0
    /\ Changed(camera, OnMouseMove(camera, 2, SmallMove, SmallMove)) = { "positionX", "positionY" }
    /\ Changed(camera, OnMouseMove(camera, 3, SmallMove, SmallMove)) = {}

-----------------------------------------------------------------------------
\* Properties of parseOBJ on irregular records

\* A line none of whose tokens is a malformed number.
WellFormed(line) == \A j \in 1..Len(line.args) : line.args[j] # BadTok

\* The number of records of a kind that the text declares in well-formed lines.
Records(doc, cmd) ==
    Cardinality({ i \in 1..Len(doc) : doc[i].cmd = cmd /\ WellFormed(doc[i]) })

\* C12: a v, vt or vn line with a malformed numeric token is skipped: it appends
\* no record, so each array holds the sentinel and one record per well-formed
\* line of its kind, and every later reference resolves as if the line were not
\* in the text.
C12_MalformedLineSkipped ==
    /\ Len(obj.positions) = 1 + Records(objDoc, "v")
    /\ Len(obj.texcoords) = 1 + Records(objDoc, "vt")
    /\ Len(obj.normals) = 1 + Records(objDoc, "vn")

\* What the parser does: every v, vt and vn line appends one record, malformed or not.
EveryRecordLineAppends ==
    /\ Len(obj.positions) = 1 + Cardinality({ i \in 1..Len(objDoc) : objDoc[i].cmd = "v" })
    /\ Len(obj.texcoords) = 1 + Cardinality({ i \in 1..Len(objDoc) : objDoc[i].cmd = "vt" })
    /\ Len(obj.normals) = 1 + Cardinality({ i \in 1..Len(objDoc) : objDoc[i].cmd = "vn" })

\* A corner without texcoord and normal reference: the fields are missing ("j")
\* or empty ("j//").
Unreferenced(x) == x = Undef \/ x = 0

\* C16: two corners written alike that reference the same position and neither
\* a texcoord nor a normal get the same output vertex, however many vt and vn
\* records are declared between their face lines.
C16_AbsentReferenceSameVertex ==
    \A i \in 1..Len(obj.corners) : \A j \in 1..Len(obj.corners) :
        LET a == obj.corners[i]
            b == obj.corners[j]
        IN  ( /\ a.raw = b.raw
              /\ a.resolved[1] = b.resolved[1]
              /\ Unreferenced(a.raw.tex) /\ Unreferenced(a.raw.norm)
              /\ Unreferenced(b.raw.tex) /\ Unreferenced(b.raw.norm) )
            => a.index = b.index

\* The same for corners whose fields are all missing ("j" and "j"): these meet in
\* one vertex; it is the empty field of "j//" that resolves to the array's length.
MissingFieldsSameVertex ==
    \A i \in 1..Len(obj.corners) : \A j \in 1..Len(obj.corners) :
        LET a == obj.corners[i]
            b == obj.corners[j]
        IN  ( /\ a.resolved[1] = b.resolved[1]
              /\ a.raw.tex = Undef /\ a.raw.norm = Undef
              /\ b.raw.tex = Undef /\ b.raw.norm = Undef )
            => a.index = b.index /\ a.resolved = <<a.resolved[1], NaN, NaN>>

\* C17: with V the number of output vertices, positions holds 3V numbers,
\* texcoords 2V and normals 3V, and every index is below V.
C17_MeshWellFormed ==
    LET V == obj.vertexCount
    IN  /\ Len(obj.finalPositions) = 3 * V
        /\ Len(obj.finalTexcoords) = 2 * V
        /\ Len(obj.finalNormals) = 3 * V
        /\ \A i \in 1..Len(obj.indices) : obj.indices[i] >= 0 /\ obj.indices[i] < V

\* What does hold on every text: the texcoords, the normals and the indices are
\* well-formed, and so are the positions while no v line is short.
WellFormedButShortPositions ==
    LET V == obj.vertexCount
    IN  /\ Len(obj.finalTexcoords) = 2 * V
        /\ Len(obj.finalNormals) = 3 * V
        /\ \A i \in 1..Len(obj.indices) : obj.indices[i] >= 0 /\ obj.indices[i] < V
        /\ (\A i \in 1..Len(objDoc) : objDoc[i].cmd = "v" => Len(objDoc[i].args) >= 3)
              => Len(obj.finalPositions) = 3 * V

====
